---- MODULE Spec2Model ----
(***************************************************************************)
(* Model of src/src/ctx_cached_property.py: a ContextVar (cache_holder)    *)
(* holding the dict of the innermost under_ctx() block of each execution   *)
(* flow, and the descriptor ctx_cached_property whose __get__ memoises a   *)
(* zero-argument computation in that dict under the key                    *)
(* f"{id(instance)} {self._func}".                                         *)
(*                                                                         *)
(* The callers (main, and any program using the two constructs) are the    *)
(* environment: flows enter and leave under_ctx blocks, read properties,   *)
(* raise and catch errors, create and drop instances, and spawn child      *)
(* flows (a thread starts with an empty context, an asyncio task with a    *)
(* copy of its creator's context).                                         *)
(*                                                                         *)
(* The fields by, fn and sc of a dict entry, prev, snap and ns of a frame   *)
(* and nb of a returned value are history: they record which read put a    *)
(* value where, what a block or a read found when it began and how many    *)
(* blocks were entered while a read ran; the program never reads them.     *)
(***************************************************************************)
EXTENDS Integers, Sequences, FiniteSets, TLC

\* ---------------------------------------------------------------- bounds
\* under_ctx() invocations in one run
MaxScopes == 2
\* invocations of wrapped computations in one run
MaxCalls == 3

\* ------------------------------------------------------------ the universe
Flows == {"main", "child"}
Instances == {"foo", "foo2"}
\* the values id() can give to an instance: the slots of the allocator
Addrs == {"0xa", "0xb"}
\* the properties declared on the class: Foo.bar of main, and a second one
Attrs == {"bar", "baz"}

Absent == 0
Dicts == 1..MaxScopes
NoInst == "none"
NoAttr == "none"
NoAddr == "none"
NoFlow == "none"

VARIABLES
    ctx,      \* cache_holder: per flow, the dict installed, or Absent
    store,    \* the dict objects: dict -> key -> entry
    tok,      \* the Tokens returned by cache_holder.set, one per under_ctx()
    nscopes,  \* under_ctx() invocations so far
    stack,    \* per flow, the open under_ctx blocks and running __get__ calls
    exc,      \* per flow, whether an exception is propagating
    flow,     \* per flow: started or not, how it was spawned
    inst,     \* per instance: lifetime, address (id), the counter _bar
    ret,      \* what the __get__ call that ended in the last step returned, and to whom
    stdout,   \* the lines the last step printed
    pc        \* how many steps of main() the flow "main" has done, Off once it left them

vars == <<ctx, store, tok, nscopes, stack, exc, flow, inst, ret, stdout, pc>>

\* ------------------------------------------------------------------ keys
\* id(instance): the address of a live object
id(i) == inst[i].addr

\* repr of the wrapped function: "<function ...bar at 0x...>", one per function
FuncRepr(a) == a

\* faulty variant: the key leaves the function out
calc_cache_key_no_func(a, i) == <<id(i), NoAttr>>

\* f"{id(instance)} {self._func}": the two parts, separated by the space
calc_cache_key(a, i) == <<id(i), FuncRepr(a)>>

\* --------------------------------------------------------------- dicts
\* a dict is a function from the keys it holds to its entries
EmptyDict == <<>>

\* faulty variant: an entry counts only while the instance's counter still has
\* the cached value
Has_fresh(d, k) ==
    k \in DOMAIN store[d] /\ store[d][k].val = inst[store[d][k].by].bar

\* cache_key in cache
Has(d, k) == k \in DOMAIN store[d]

\* the dict c with e under k, whether or not k was there
With(c, k, e) == [x \in DOMAIN c \cup {k} |-> IF x = k THEN e ELSE c[x]]

\* faulty variant: one dict for all blocks
NewDict_shared(f, n) == IF nscopes = 0 THEN n ELSE tok[1].d

\* faulty variant: a nested block takes the dict of the enclosing one
NewDict_reuse(f, n) == IF ctx[f] # Absent THEN ctx[f] ELSE n

\* {} in under_ctx() number n, called on flow f: a new dict object
NewDict(f, n) == n

\* faulty variant: the value is put into every dict
DictPut_all(d, k, e) == [x \in DOMAIN store |-> With(store[x], k, e)]

\* cache[cache_key] = value
DictPut(d, k, e) == [store EXCEPT ![d] = With(@, k, e)]

\* ------------------------------------------------------------ ContextVar
NoToken == [old |-> Absent, used |-> FALSE, flow |-> NoFlow, d |-> Absent]

\* faulty variant: get() with a default dict, never a LookupError
ContextVarGet_default(f) == IF ctx[f] = Absent THEN 1 ELSE ctx[f]

\* cache_holder.get() in the context of flow f; Absent stands for LookupError
ContextVarGet(f) == ctx[f]

\* faulty variant: a module-level variable, one value for all flows
ContextVarSet_global(f, d) == [g \in Flows |-> d]

\* faulty variant: set() hands out a token and installs nothing
ContextVarSet_noop(f, d) == ctx

\* cache_holder.set(d) in the context of flow f
ContextVarSet(f, d) == [ctx EXCEPT ![f] = d]

\* faulty variant: reset() empties the variable
ContextVarReset_clear(f, n) == [ctx EXCEPT ![f] = Absent]

\* faulty variant: the block never resets the variable
ContextVarReset_keep(f, n) == ctx

\* cache_holder.reset(token) in the context of flow f
ContextVarReset(f, n) == [ctx EXCEPT ![f] = tok[n].old]

\* the under_ctx() invocation that installed dict d last
ScopeOf(d) ==
    IF d = Absent \/ \A n \in 1..nscopes : tok[n].d # d THEN 0
    ELSE CHOOSE n \in 1..nscopes :
            tok[n].d = d /\ \A m \in 1..nscopes : tok[m].d = d => m <= n

\* ---------------------------------------------------------------- frames
CtxFrame(n, prev, snap) ==
    [k |-> "ctx", n |-> n, prev |-> prev, snap |-> snap, ns |-> 0,
     i |-> NoInst, a |-> NoAttr, key |-> <<NoAddr, NoAttr>>, cache |-> Absent, sc |-> 0]

GetFrame(i, a, key, cache, sc, snap) ==
    [k |-> "get", n |-> 0, prev |-> Absent, snap |-> snap, ns |-> nscopes,
     i |-> i, a |-> a, key |-> key, cache |-> cache, sc |-> sc]

Depth(f) == Len(stack[f])
Top(f) == stack[f][Depth(f)]
TopIs(f, k) == Depth(f) > 0 /\ Top(f).k = k
Push(f, fr) == [stack EXCEPT ![f] = Append(@, fr)]
Pop(f) == [stack EXCEPT ![f] = SubSeq(@, 1, Len(@) - 1)]

GetsOf(f) == {x \in 1..Depth(f) : stack[f][x].k = "get"}
InGet(f) == GetsOf(f) # {}

\* A flow runs when it has started and no other flow of its event loop is in
\* the middle of a (synchronous) __get__: tasks of one loop switch at awaits only.
Runnable(f) ==
    /\ flow[f].st = "run"
    /\ \A g \in Flows \ {f} :
          (flow[g].st = "run" /\ flow[g].loop = flow[f].loop) => ~InGet(g)

\* ------------------------------------------------------------ return values
NoRet == [f |-> NoFlow, k |-> "none", n |-> 0, a |-> NoAttr, nb |-> 0]
RetVal(f, v) == [f |-> f, k |-> "val", n |-> v, a |-> NoAttr, nb |-> 0]
\* the value comes from a computation that has just stored it, and during
\* which nb blocks were entered
RetStored(f, v, nb) == [RetVal(f, v) EXCEPT !.nb = nb]
RetSelf(f, a) == [f |-> f, k |-> "self", n |-> 0, a |-> a, nb |-> 0]
\* the call ended with the error of the computation
RetExc(f) == [f |-> f, k |-> "exc", n |-> 0, a |-> NoAttr, nb |-> 0]

\* ----------------------------------------------------------------- main()
\* The steps of main() after foo = Foo(): with under_ctx(): foo.bar; foo.bar
\* and then foo.bar, followed by one further read outside the block.  pc
\* follows the flow "main" through them, and is Off as soon as that flow, or
\* anything done to foo, departs from them.
Off == 0 - 1
MainSteps == <<"enter", "read", "read", "exit", "read", "read">>

Expects(what) == pc # Off /\ pc < Len(MainSteps) /\ MainSteps[pc + 1] = what

\* flow f does a whole step of the kind `what` (a block entered or left, a
\* read answered from the dict or by a computation that returns)
Done(f, what, i, a) ==
    IF f # "main" THEN pc
    ELSE IF Expects(what) /\ i \in {"foo", NoInst} /\ a \in {"bar", NoAttr}
         THEN pc + 1 ELSE Off

\* flow f starts a computation for a read of i.a
Begun(f, i, a) ==
    IF f # "main" THEN pc
    ELSE IF Expects("read") /\ i = "foo" /\ a = "bar" /\ ~InGet(f) THEN pc ELSE Off

\* flow f does something main() does not do
Other(f) == IF f = "main" THEN Off ELSE pc

\* ------------------------------------------------------------------ Init
Init ==
    /\ ctx = [f \in Flows |-> Absent]
    /\ store = [d \in Dicts |-> EmptyDict]
    /\ tok = [n \in 1..MaxScopes |-> NoToken]
    /\ nscopes = 0
    /\ stack = [f \in Flows |-> <<>>]
    /\ exc = [f \in Flows |-> FALSE]
    /\ flow = [f \in Flows |->
                 IF f = "main" THEN [st |-> "run", kind |-> "root", loop |-> f, inh |-> Absent]
                 ELSE [st |-> "unborn", kind |-> "none", loop |-> f, inh |-> Absent]]
    /\ inst = [i \in Instances |->
                 IF i = "foo" THEN [st |-> "live", addr |-> "0xa", bar |-> 0]
                 ELSE [st |-> "new", addr |-> NoAddr, bar |-> 0]]
    /\ ret = NoRet
    /\ stdout = <<>>
    /\ pc = 0

\* ------------------------------------------------------------- under_ctx
\* token = cache_holder.set({}); yield
Enter(f) ==
    /\ Runnable(f) /\ ~exc[f]
    /\ nscopes < MaxScopes
    /\ LET n == nscopes + 1
           d == NewDict(f, n)
       IN /\ tok' = [tok EXCEPT ![n] = [old |-> ctx[f], used |-> FALSE, flow |-> f, d |-> d]]
          /\ ctx' = ContextVarSet(f, d)
          /\ nscopes' = n
          /\ stack' = Push(f, CtxFrame(n, ctx[f],
                                 IF ctx[f] = Absent THEN EmptyDict ELSE store[ctx[f]]))
    /\ UNCHANGED <<store, exc, flow, inst>>
    /\ ret' = NoRet /\ stdout' = <<>>
    /\ pc' = Done(f, "enter", NoInst, NoAttr)

\* faulty variant: every block resets with the oldest token there is
TokenOf_oldest(fr) == CHOOSE n \in 1..nscopes : \A m \in 1..nscopes : n <= m

\* token: the local variable of the generator of this block
TokenOf(fr) == fr.n

\* finally: cache_holder.reset(token). A token that was used already makes
\* reset raise RuntimeError and leaves the variable alone.
Leave(f) ==
    LET n == TokenOf(Top(f))
    IN /\ stack' = Pop(f)
       /\ IF tok[n].used
          THEN /\ exc' = [exc EXCEPT ![f] = TRUE]
               /\ UNCHANGED <<ctx, tok>>
          ELSE /\ ctx' = ContextVarReset(f, n)
               /\ tok' = [tok EXCEPT ![n].used = TRUE]
               /\ UNCHANGED exc
       /\ UNCHANGED <<store, nscopes, flow, inst>>
       /\ ret' = NoRet /\ stdout' = <<>>

\* the block ends normally: the generator resumes after yield
ExitNormal(f) ==
    /\ Runnable(f) /\ ~exc[f]
    /\ TopIs(f, "ctx")
    /\ Leave(f)
    /\ pc' = Done(f, "exit", NoInst, NoAttr)

\* an error leaves the block: it is thrown into the generator at yield, the
\* finally clause runs and the error goes on to the caller
ExitError(f) ==
    /\ Runnable(f) /\ exc[f]
    /\ TopIs(f, "ctx")
    /\ Leave(f)
    /\ pc' = Other(f)

\* --------------------------------------------------- ctx_cached_property
\* the computation of (i, a) is not already running on this flow
NotRunning(f, i, a) ==
    \A x \in GetsOf(f) : ~(stack[f][x].i = i /\ stack[f][x].a = a)

CanGet(f, i, a) ==
    /\ Runnable(f) /\ ~exc[f]
    /\ inst[i].st = "live"
    /\ NotRunning(f, i, a)

RECURSIVE SumBar(_)
SumBar(S) == IF S = {} THEN 0
             ELSE LET i == CHOOSE x \in S : TRUE IN inst[i].bar + SumBar(S \ {i})

\* the computations called so far: each call that returned added one to a _bar
Calls == SumBar(Instances)

CanCall(f, i) ==
    /\ Calls + Cardinality(UNION {GetsOf(g) \X {g} : g \in Flows}) < MaxCalls

\* faulty variant: without the test of line 28 the read goes on as a read on
\* an instance: with no dict in the variable it prints the warning
GetOnClass_warn(f, a) ==
    /\ Runnable(f) /\ ~exc[f]
    /\ ret' = RetSelf(f, a)
    /\ UNCHANGED <<ctx, store, tok, nscopes, stack, exc, flow, inst>>
    /\ stdout' = (IF ContextVarGet(f) = Absent THEN <<FuncRepr(a)>> ELSE <<>>)
    /\ pc' = Other(f)

\* Foo.bar: instance is None, return self
GetOnClass(f, a) ==
    /\ Runnable(f) /\ ~exc[f]
    /\ ret' = RetSelf(f, a)
    /\ UNCHANGED <<ctx, store, tok, nscopes, stack, exc, flow, inst>>
    /\ stdout' = <<>>
    /\ pc' = Other(f)

\* faulty variant: the fallback says nothing
Warning_silent(a) == <<>>

\* print(f"warning: cache does not work for {self._func} outside context"):
\* one line, told apart by the function it names
Warning(a) == <<FuncRepr(a)>>

\* foo.bar with no value in cache_holder: LookupError, the warning is printed
\* and self._func(instance) is called
GetNoCtx(f, i, a) ==
    /\ CanGet(f, i, a) /\ CanCall(f, i)
    /\ ContextVarGet(f) = Absent
    /\ stdout' = Warning(a)
    /\ stack' = Push(f, GetFrame(i, a, <<NoAddr, NoAttr>>, Absent, 0, EmptyDict))
    /\ UNCHANGED <<ctx, store, tok, nscopes, exc, flow, inst>>
    /\ ret' = NoRet
    /\ pc' = Begun(f, i, a)

\* foo.bar with the key in the dict: return cache[cache_key]
GetCached(f, i, a) ==
    /\ CanGet(f, i, a)
    /\ ContextVarGet(f) # Absent
    /\ LET d == ContextVarGet(f)
           k == calc_cache_key(a, i)
       IN /\ Has(d, k)
          /\ ret' = RetVal(f, store[d][k].val)
    /\ UNCHANGED <<ctx, store, tok, nscopes, stack, exc, flow, inst>>
    /\ stdout' = <<>>
    /\ pc' = Done(f, "read", i, a)

\* foo.bar with the key not in the dict: self._func(instance) is called
GetMiss(f, i, a) ==
    /\ CanGet(f, i, a) /\ CanCall(f, i)
    /\ ContextVarGet(f) # Absent
    /\ LET d == ContextVarGet(f)
           k == calc_cache_key(a, i)
       IN /\ ~Has(d, k)
          /\ stack' = Push(f, GetFrame(i, a, k, d, ScopeOf(d), store[d]))
    /\ UNCHANGED <<ctx, store, tok, nscopes, exc, flow, inst>>
    /\ ret' = NoRet /\ stdout' = <<>>
    /\ pc' = Begun(f, i, a)

\* faulty variant: the result goes to the dict of the block entered last
StoreTarget_latest(fr) == tok[nscopes].d

\* cache on line 42 is the local variable bound on line 33, before the call
StoreTarget(fr) == fr.cache

\* the computation of main: self._bar += 1; return self._bar.  Its value comes
\* back to __get__, which returns it (no context) or stores it in the dict it
\* looked up before the call and returns cache[cache_key].
FuncReturn(f) ==
    /\ Runnable(f) /\ ~exc[f]
    /\ TopIs(f, "get")
    /\ LET fr == Top(f)
           v == inst[fr.i].bar + 1
       IN /\ inst' = [inst EXCEPT ![fr.i].bar = v]
          /\ IF fr.cache = Absent
             THEN /\ UNCHANGED store
                  /\ ret' = RetVal(f, v)
             ELSE /\ store' = DictPut(StoreTarget(fr), fr.key,
                                 [val |-> v, by |-> fr.i, fn |-> fr.a, sc |-> fr.sc])
                  /\ ret' = RetStored(f, store'[StoreTarget(fr)][fr.key].val,
                                      Cardinality({n \in (fr.ns + 1)..nscopes : tok[n].flow = f}))
          /\ stack' = Pop(f)
    /\ UNCHANGED <<ctx, tok, nscopes, exc, flow>>
    /\ stdout' = <<>>
    /\ pc' = (IF Cardinality(GetsOf(f)) = 1 THEN Done(f, "read", Top(f).i, Top(f).a) ELSE Other(f))

\* faulty variant: a failed computation leaves a placeholder under the key
DictAfterRaise_negative(c, k) ==
    IF c = Absent THEN store
    ELSE [store EXCEPT ![c] = With(@, k, [val |-> 0, by |-> NoInst, fn |-> NoAttr, sc |-> 0])]

\* the assignment of line 42 never happens when the call on its right raises
DictAfterRaise(c, k) == store

\* an error propagates out of self._func(instance) and out of __get__, which
\* has no handler: nothing is stored
GetUnwind(f) ==
    /\ Runnable(f) /\ exc[f]
    /\ TopIs(f, "get")
    /\ stack' = Pop(f)
    /\ store' = DictAfterRaise(Top(f).cache, Top(f).key)
    /\ UNCHANGED <<ctx, tok, nscopes, exc, flow, inst>>
    /\ ret' = RetExc(f) /\ stdout' = <<>>
    /\ pc' = Other(f)

\* ------------------------------------------------------------ the callers
\* the code running in the innermost block or computation raises
Raise(f) ==
    /\ Runnable(f) /\ ~exc[f]
    /\ Depth(f) > 0
    /\ exc' = [exc EXCEPT ![f] = TRUE]
    /\ UNCHANGED <<ctx, store, tok, nscopes, stack, flow, inst>>
    /\ ret' = NoRet /\ stdout' = <<>>
    /\ pc' = Other(f)

\* the code around the innermost block or computation handles the error
Catch(f) ==
    /\ Runnable(f) /\ exc[f]
    /\ exc' = [exc EXCEPT ![f] = FALSE]
    /\ UNCHANGED <<ctx, store, tok, nscopes, stack, flow, inst>>
    /\ ret' = NoRet /\ stdout' = <<>>
    /\ pc' = Other(f)

\* contextvars.copy_context(): the child sees the values of its creator
CopyContext(p) == ctx[p]

\* flow p starts flow c: a thread (empty context, a loop of its own) or an
\* asyncio task (a copy of p's context, p's event loop)
Spawn(p, c, kind) ==
    /\ Runnable(p) /\ ~exc[p]
    /\ flow[c].st = "unborn"
    /\ LET v == IF kind = "task" THEN CopyContext(p) ELSE Absent
       IN /\ flow' = [flow EXCEPT ![c] =
                        [st |-> "run", kind |-> kind,
                         loop |-> IF kind = "task" THEN flow[p].loop ELSE c,
                         inh |-> v]]
          /\ ctx' = [ctx EXCEPT ![c] = v]
    /\ UNCHANGED <<store, tok, nscopes, stack, exc, inst>>
    /\ ret' = NoRet /\ stdout' = <<>>
    /\ pc' = pc

UsedAddrs == {inst[j].addr : j \in {x \in Instances : inst[x].st = "live"}}

\* Foo(): the allocator gives the object any address no live object has
Create(i, ad) ==
    /\ inst[i].st = "new"
    /\ ad \in Addrs \ UsedAddrs
    /\ inst' = [inst EXCEPT ![i] = [st |-> "live", addr |-> ad, bar |-> 0]]
    /\ UNCHANGED <<ctx, store, tok, nscopes, stack, exc, flow>>
    /\ ret' = NoRet /\ stdout' = <<>>
    /\ pc' = (IF i = "foo" THEN Off ELSE pc)

Referenced(i) ==
    \E f \in Flows : \E x \in 1..Depth(f) : stack[f][x].i = i

\* the last reference to the instance goes away and its address is free again
Destroy(i) ==
    /\ inst[i].st = "live"
    /\ ~Referenced(i)
    /\ inst' = [inst EXCEPT ![i].st = "dead", ![i].addr = NoAddr]
    /\ UNCHANGED <<ctx, store, tok, nscopes, stack, exc, flow>>
    /\ ret' = NoRet /\ stdout' = <<>>
    /\ pc' = (IF i = "foo" THEN Off ELSE pc)

\* ------------------------------------------------------------------ Next
\* flow f enters or leaves a block, raises or handles an error
ScopeStep(f) ==
    \/ Enter(f)
    \/ ExitNormal(f)
    \/ ExitError(f)
    \/ Raise(f)
    \/ Catch(f)

\* flow f reads i.a
ReadStep(f, i, a) ==
    \/ GetNoCtx(f, i, a)
    \/ GetCached(f, i, a)
    \/ GetMiss(f, i, a)

\* main() is created with its instance foo (Init); the callers of one flow use
\* the property bar on foo and on a second instance that comes and goes
Next ==
    \/ ScopeStep("main")
    \/ \E i \in Instances : ReadStep("main", i, "bar")
    \/ FuncReturn("main")
    \/ GetUnwind("main")
    \/ \E ad \in Addrs : Create("foo2", ad)
    \/ \E i \in Instances : Destroy(i)

Spec == Init /\ [][Next]_vars

\* one flow, two properties on the class: bar is read on both instances, baz
\* on foo, and both on the class
NextKeys ==
    \/ Enter("main")
    \/ ExitNormal("main")
    \/ \E i \in Instances : ReadStep("main", i, "bar")
    \/ ReadStep("main", "foo", "baz")
    \/ FuncReturn("main")
    \/ \E a \in Attrs : GetOnClass("main", a)
    \/ \E ad \in Addrs : Create("foo2", ad)

SpecKeys == Init /\ [][NextKeys]_vars

\* two flows using foo.bar: main starts child as a thread or as a task
NextFlows ==
    \/ \E f \in Flows : ScopeStep(f)
    \/ \E f \in Flows : ReadStep(f, "foo", "bar")
    \/ \E f \in Flows : FuncReturn(f)
    \/ \E f \in Flows : GetUnwind(f)
    \/ \E kind \in {"thread", "task"} : Spawn("main", "child", kind)

SpecFlows == Init /\ [][NextFlows]_vars

\* ================================================================ claims
\* the entry a read of i.a on flow f finds or makes
EntryOf(f, i, a) == store[ContextVarGet(f)][calc_cache_key(a, i)]

\* flow f leaves a block, normally or by an error
Exit(f) == ExitNormal(f) \/ ExitError(f)

\* ---------------------------------------------------------------- C1
\* C1: within one scope, every read of I.C either is the first one, and
\* invokes the computation, or returns without invoking it the value that an
\* earlier read of the same I.C stored in this scope: a read answered from
\* the store gets an entry that a read of I.C made in this scope, and a read
\* that invokes the computation finds no entry of I.C in the scope's store.
C1_OncePerScope ==
    [][\A f \in Flows, i \in Instances, a \in Attrs :
         /\ GetCached(f, i, a) =>
               /\ EntryOf(f, i, a).by = i
               /\ EntryOf(f, i, a).fn = a
               /\ EntryOf(f, i, a).sc = ScopeOf(ctx[f])
         /\ GetMiss(f, i, a) =>
               \A k \in DOMAIN store[ctx[f]] :
                   ~(store[ctx[f]][k].by = i /\ store[ctx[f]][k].fn = a)]_vars

\* ---------------------------------------------------------------- C2
\* C2: every exit of an under_ctx block, normal or by an error, puts back
\* into the slot of the flow the value it held just before the block was
\* entered, and an error that leaves the block is still propagating after it.
C2_ExitRestores ==
    [][\A f \in Flows :
         Exit(f) => /\ ctx'[f] = Top(f).prev
                    /\ exc'[f] = exc[f]]_vars

\* an error has left a nested block: the outer dict is back and the error goes on
C2_Witness ==
    \E n \in 1..nscopes :
        /\ tok[n].used /\ tok[n].old # Absent
        /\ ctx["main"] = tok[n].old
        /\ exc["main"]

\* ---------------------------------------------------------------- C3
\* C3: every under_ctx block starts with an empty store, and a read never
\* returns a value that was cached in a scope that has exited: in a later
\* scope the value is computed again.
C3_FreshPerScope ==
    [][\A f \in Flows :
         /\ Enter(f) => store'[ctx'[f]] = EmptyDict
         /\ \A i \in Instances, a \in Attrs :
               GetCached(f, i, a) => ~tok[EntryOf(f, i, a).sc].used]_vars

\* foo.bar was cached in a scope that has exited and is cached again, with
\* another value, in the scope that is active now
C3_Witness ==
    \E n \in 1..nscopes : \E k \in DOMAIN store[tok[n].d] :
        /\ tok[n].used /\ tok[n].old = Absent
        /\ ctx["main"] # Absent /\ ctx["main"] # tok[n].d
        /\ k \in DOMAIN store[ctx["main"]]
        /\ store[tok[n].d][k].by = "foo" /\ store[ctx["main"]][k].by = "foo"
        /\ store[ctx["main"]][k].val # store[tok[n].d][k].val

\* ---------------------------------------------------------------- C4
\* C4: when a block entered inside another block is left, normally or by an
\* error, the store of the outer block is the active one again and holds
\* exactly the entries it held when the inner block was entered.
C4_OuterUntouched ==
    [][\A f \in Flows :
         (Exit(f) /\ Top(f).prev # Absent) =>
             /\ ctx'[f] = Top(f).prev
             /\ store'[Top(f).prev] = Top(f).snap]_vars

\* an inner block that cached a value has been left and the outer store, which
\* holds an entry of its own, is active
C4_Witness ==
    \E n \in 1..nscopes :
        /\ tok[n].used /\ tok[n].old # Absent
        /\ store[tok[n].d] # EmptyDict
        /\ ctx["main"] = tok[n].old
        /\ store[tok[n].old] # EmptyDict

\* ---------------------------------------------------------------- C5
\* the blocks open on flow f, outermost first
OpenScopes(f) == {stack[f][x].n : x \in {y \in 1..Depth(f) : stack[f][y].k = "ctx"}}

\* C5: a block entered inside another block gets a new, empty store of its
\* own, whatever the outer store holds; the stores of the blocks open on a
\* flow are distinct and each holds only values cached in its own block, so a
\* read in the inner block computes again and the outer block never returns
\* what the inner one cached.
C5_NestedIndependent ==
    /\ [](\A f \in Flows : \A n \in OpenScopes(f) :
            /\ \A m \in OpenScopes(f) : m # n => tok[m].d # tok[n].d
            /\ \A k \in DOMAIN store[tok[n].d] : store[tok[n].d][k].sc = n)
    /\ [][\A f \in Flows :
            (Enter(f) /\ ctx[f] # Absent) =>
                /\ ctx'[f] # ctx[f]
                /\ store'[ctx'[f]] = EmptyDict]_vars

\* foo.bar is cached in the outer block and, with another value, in the inner
\* block, which is the active one
C5_Witness ==
    \E n \in OpenScopes("main") : \E k \in DOMAIN store[tok[n].d] :
        /\ tok[n].old # Absent
        /\ ctx["main"] = tok[n].d
        /\ k \in DOMAIN store[tok[n].old]
        /\ store[tok[n].d][k].by = store[tok[n].old][k].by
        /\ store[tok[n].d][k].val # store[tok[n].old][k].val

\* ---------------------------------------------------------------- C6
\* C6: with no scope active on the flow, a read never consults a store: it
\* invokes the computation, returns the value the computation has just made
\* and leaves every store as it was.
C6_UncachedFallback ==
    [][\A f \in Flows :
         /\ \A i \in Instances, a \in Attrs :
               ctx[f] = Absent => ~GetCached(f, i, a) /\ ~GetMiss(f, i, a)
         /\ (FuncReturn(f) /\ ctx[f] = Absent) =>
               /\ store' = store
               /\ inst'[Top(f).i].bar = inst[Top(f).i].bar + 1
               /\ ret' = RetVal(f, inst'[Top(f).i].bar)]_vars

\* the second read of foo.bar outside any scope has returned 2
C6_Witness ==
    /\ nscopes = 0
    /\ ret = RetVal("main", 2)
    /\ inst["foo"].bar = 2

\* ---------------------------------------------------------------- C7
Live == {i \in Instances : inst[i].st = "live"}

\* C7: in any store, two distinct live instances reading the same property, and
\* one instance reading two distinct properties, use distinct keys; every
\* value cached for a live instance sits under that instance's and that
\* property's key, a read served from the store returns the value the same
\* instance's read of the same property computed, and a computation's result
\* replaces no other entry.
C7_KeysDoNotCollide ==
    /\ [](/\ \A i \in Live, j \in Live, a \in Attrs, b \in Attrs :
                (i # j \/ a # b) => calc_cache_key(a, i) # calc_cache_key(b, j)
          /\ \A d \in Dicts : \A k \in DOMAIN store[d] :
                store[d][k].by \in Live =>
                    k = calc_cache_key(store[d][k].fn, store[d][k].by))
    /\ [][\A f \in Flows :
            /\ \A i \in Instances, a \in Attrs :
                  GetCached(f, i, a) =>
                      EntryOf(f, i, a).by = i /\ EntryOf(f, i, a).fn = a
            /\ (FuncReturn(f) /\ Top(f).cache # Absent) =>
                  /\ Top(f).key \notin DOMAIN store[Top(f).cache]
                  /\ \A k \in DOMAIN store[Top(f).cache] :
                        store'[Top(f).cache][k] = store[Top(f).cache][k]]_vars

\* one store holds a value for foo.bar, one for foo2.bar and one for foo.baz,
\* each computed by its own call
C7_Witness ==
    /\ Live = {"foo", "foo2"}
    /\ \E d \in Dicts :
          /\ Has(d, calc_cache_key("bar", "foo"))
          /\ Has(d, calc_cache_key("bar", "foo2"))
          /\ Has(d, calc_cache_key("baz", "foo"))
          /\ Cardinality(DOMAIN store[d]) = 3
          /\ store[d][calc_cache_key("bar", "foo2")].by = "foo2"
          /\ store[d][calc_cache_key("baz", "foo")].fn = "baz"
          /\ inst["foo"].bar = 2 /\ inst["foo2"].bar = 1

\* ---------------------------------------------------------------- C8
\* the values main() and the read after it see
MainValues == <<0, 1, 1, 0, 2, 3>>

\* C8: for foo, whose counter starts at 0: the two reads of foo.bar inside the
\* block return 1 and 1 and leave the counter at 1; after the block has
\* exited, with no block open, the next read returns 2 and the one after it 3.
C8_MainValues ==
    [][(pc' # pc /\ pc' \in {2, 3, 5, 6}) =>
          /\ ret' = RetVal("main", MainValues[pc'])
          /\ (pc' \in {2, 3}) => (ctx'["main"] # Absent /\ inst'["foo"].bar = 1)
          /\ (pc' \in {5, 6}) => (ctx'["main"] = Absent /\ OpenScopes("main") = {})]_vars

\* main() and the further read have run to the end: the last read returned 3
C8_Witness ==
    /\ pc = 6
    /\ ret = RetVal("main", 3)
    /\ inst["foo"].bar = 3

\* ---------------------------------------------------------------- C9
\* a flow that was given no store when it started
Independent(f) == flow[f].st = "run" /\ flow[f].inh = Absent

Innermost(S) == CHOOSE n \in S : \A m \in S : m <= n

\* C9: entering or leaving a block on one flow leaves the slot of every other
\* flow as it is, whatever the interleaving; a read on a flow that was given no
\* store at its start consults only a store that flow itself installed; and a
\* flow with blocks open keeps seeing the store of its own innermost open block
\* while other flows run.
C9_FlowsHaveOwnSlot ==
    /\ [](\A f \in Flows :
            OpenScopes(f) # {} =>
                /\ ctx[f] = tok[Innermost(OpenScopes(f))].d
                /\ tok[Innermost(OpenScopes(f))].flow = f)
    /\ [][\A f \in Flows :
            /\ \A g \in Flows \ {f} :
                  (Enter(g) \/ Exit(g)) => ctx'[f] = ctx[f]
            /\ \A i \in Instances, a \in Attrs :
                  (Independent(f) /\ (GetCached(f, i, a) \/ GetMiss(f, i, a))) =>
                      tok[ScopeOf(ctx[f])].flow = f]_vars

\* main and a thread are each inside a block of their own; each has cached its
\* own value of foo.bar in its own store, and the thread has just read its own
C9_Witness ==
    /\ flow["child"].kind = "thread"
    /\ ctx["main"] # Absent /\ ctx["child"] # Absent
    /\ ctx["main"] # ctx["child"]
    /\ Has(ctx["main"], calc_cache_key("bar", "foo"))
    /\ Has(ctx["child"], calc_cache_key("bar", "foo"))
    /\ EntryOf("main", "foo", "bar").val = 1
    /\ EntryOf("child", "foo", "bar").val = 2
    /\ ret = RetVal("child", 2)

\* ---------------------------------------------------------------- C10
\* C10: nothing in the program hands a store to another flow, so a read on a
\* child flow consults, and a computation started on a child flow fills, only
\* a store installed by a block the child itself entered: never the store of
\* the block its parent was in when it spawned the child.
C10_NoImplicitSharing ==
    [][\A f \in Flows :
         /\ \A i \in Instances, a \in Attrs :
               (flow[f].kind # "root" /\ (GetCached(f, i, a) \/ GetMiss(f, i, a))) =>
                   tok[ScopeOf(ctx[f])].flow = f
         /\ (flow[f].kind # "root" /\ FuncReturn(f) /\ Top(f).cache # Absent) =>
               tok[ScopeOf(Top(f).cache)].flow = f]_vars

C13_ClassReadReturnsSelf ==
    /\ [](ret.k = "self" => stdout = <<>>)
    /\ [][\A f \in Flows, a \in Attrs :
            GetOnClass(f, a) =>
                /\ ret' = RetSelf(f, a)
                /\ stdout' = <<>>
                /\ store' = store /\ inst' = inst
                /\ ctx' = ctx /\ tok' = tok
                /\ stack' = stack /\ exc' = exc]_vars

\* Foo.baz has just been read on the class outside any block, after foo.bar
\* was read on the instance: it returned the descriptor and printed nothing
C13_Witness ==
    /\ ret = RetSelf("main", "baz")
    /\ ctx["main"] = Absent /\ stack["main"] = <<>>
    /\ stdout = <<>>
    /\ inst["foo"].bar = 1

\* ---------------------------------------------------------------- C14
\* C14: a read on an instance made with no dict in the flow's variable prints
\* exactly one line, the warning naming the property's function, in the step
\* that starts the computation and so before the computation has changed the
\* instance or returned; no other step prints: not the end of that
\* computation, and no read made with a dict in the variable.
C14_WarningOncePerUncachedRead ==
    /\ [](Len(stdout) <= 1)
    /\ [][\A f \in Flows, i \in Instances, a \in Attrs :
            /\ GetNoCtx(f, i, a) =>
                  /\ ctx[f] = Absent
                  /\ stdout' = <<FuncRepr(a)>>
                  /\ inst' = inst /\ ret' = NoRet
                  /\ TopIs(f, "get")' /\ Top(f)'.i = i /\ Top(f)'.cache = Absent
            /\ (GetCached(f, i, a) \/ GetMiss(f, i, a)) =>
                  ctx[f] # Absent /\ stdout' = <<>>]_vars
    /\ [][(\A f \in Flows, i \in Instances, a \in Attrs : ~GetNoCtx(f, i, a)) =>
            stdout' = <<>>]_vars

\* after the block of main() has exited, the second read of foo.bar outside
\* it has printed its warning and its computation has not run yet
C14_Witness ==
    /\ stdout = <<FuncRepr("bar")>>
    /\ ctx["main"] = Absent /\ nscopes = 1
    /\ TopIs("main", "get") /\ Top("main").i = "foo"
    /\ inst["foo"].bar = 2

\* ---------------------------------------------------------------- C15
\* C15: on one flow, after any properly nested entries, exits (normal or by
\* error) and reads, the variable holds the dict made by the innermost block
\* that is still open, and that dict was made by no other block; with no
\* block open the variable is empty, as it is again every time the outermost
\* block has exited.
C15_SlotIsInnermostOpenScope ==
    /\ [](\A f \in Flows :
            IF OpenScopes(f) = {}
            THEN ctx[f] = Absent
            ELSE /\ ctx[f] # Absent
                 /\ ScopeOf(ctx[f]) = Innermost(OpenScopes(f))
                 /\ \A n \in 1..nscopes : tok[n].d = ctx[f] => n = Innermost(OpenScopes(f)))
    /\ [][\A f \in Flows :
            (Exit(f) /\ OpenScopes(f)' = {}) => ctx'[f] = Absent]_vars

\* two blocks were nested, values were cached in the inner one, and both have
\* exited by an error that is still propagating: the variable is empty again
C15_Witness ==
    /\ nscopes = 2
    /\ tok[2].old = tok[1].d /\ tok[1].used /\ tok[2].used
    /\ OpenScopes("main") = {} /\ stack["main"] = <<>>
    /\ exc["main"]
    /\ ctx["main"] = Absent
    /\ store[tok[2].d] # EmptyDict

\* ---------------------------------------------------------------- C16
\* C16: a read is served from the store only with a value that a read of the
\* same instance computed, so an instance whose computation never ran is
\* never served: this also for an instance created in the scope after an
\* instance that cached a value there is gone.
C16_ValueOnlyToItsInstance ==
    [][\A f \in Flows, i \in Instances, a \in Attrs :
         GetCached(f, i, a) =>
             /\ EntryOf(f, i, a).by = i
             /\ inst[i].bar >= 1]_vars

\* ---------------------------------------------------------------- C17
AllOpen == UNION {OpenScopes(f) : f \in Flows}

\* C17: every under_ctx() makes one token when it is entered and resets with
\* that token, once, when it exits: a token is used exactly when its block has
\* exited; entering changes no other token; an exit uses the token of the
\* innermost open block of its flow, which was not used before, puts back the
\* value that token holds, touches no other token and raises no error of its
\* own; a used token is never touched again.
C17_OneInstallOneRestore ==
    /\ [](\A n \in 1..MaxScopes :
            /\ n > nscopes => tok[n] = NoToken
            /\ n <= nscopes => (tok[n].used <=> n \notin AllOpen))
    /\ [][\A f \in Flows :
            /\ Enter(f) =>
                  /\ nscopes' = nscopes + 1
                  /\ tok'[nscopes'].old = ctx[f] /\ ~tok'[nscopes'].used
                  /\ tok'[nscopes'].flow = f /\ tok'[nscopes'].d = ctx'[f]
                  /\ \A m \in 1..MaxScopes : m # nscopes' => tok'[m] = tok[m]
                  /\ OpenScopes(f)' = OpenScopes(f) \cup {nscopes'}
            /\ Exit(f) =>
                  /\ Top(f).n = Innermost(OpenScopes(f))
                  /\ tok[Top(f).n].flow = f
                  /\ ~tok[Top(f).n].used /\ tok'[Top(f).n].used
                  /\ ctx'[f] = tok[Top(f).n].old
                  /\ \A m \in 1..MaxScopes : m # Top(f).n => tok'[m] = tok[m]
                  /\ OpenScopes(f)' = OpenScopes(f) \ {Top(f).n}
                  /\ exc'[f] = exc[f]]_vars
    /\ [][\A n \in 1..MaxScopes : tok[n].used => tok'[n] = tok[n]]_vars

\* of two nested blocks the inner one has exited and used its token, the
\* outer one is still open with its token unused
C17_Witness ==
    /\ nscopes = 2
    /\ tok[2].old = tok[1].d
    /\ tok[2].used /\ ~tok[1].used
    /\ OpenScopes("main") = {1}
    /\ ctx["main"] = tok[1].d
    /\ ~exc["main"]

\* ---------------------------------------------------------------- C18
\* C18: a read that starts a computation remembers the dict the variable
\* held at that moment, and the result is stored in that dict under the
\* read's key, whatever blocks the computation entered and left and whatever
\* it read meanwhile: the store adds that one entry, holding the value the
\* read returns, to that one dict; the entries the dict had when the read
\* began are as they were; no other dict changes; and the dict is the one
\* of the scope that is active again when the read returns.
C18_StoredWhereReadBegan ==
    [][\A f \in Flows :
         /\ \A i \in Instances, a \in Attrs :
               GetMiss(f, i, a) =>
                   /\ Top(f)'.cache = ctx[f]
                   /\ Top(f)'.key = calc_cache_key(a, i)
                   /\ Top(f)'.snap = store[ctx[f]]
                   /\ Top(f)'.sc = ScopeOf(ctx[f])
         /\ (FuncReturn(f) /\ Top(f).cache # Absent) =>
               LET c == Top(f).cache
                   k == Top(f).key
               IN /\ DOMAIN store'[c] = DOMAIN store[c] \cup {k}
                  /\ k \notin DOMAIN store[c]
                  /\ store'[c][k].val = ret'.n /\ ret'.k = "val" /\ ret'.f = f
                  /\ store'[c][k].by = Top(f).i /\ store'[c][k].fn = Top(f).a
                  /\ store'[c][k].sc = Top(f).sc
                  /\ \A x \in DOMAIN store[c] : store'[c][x] = store[c][x]
                  /\ \A x \in DOMAIN Top(f).snap :
                        x \in DOMAIN store'[c] /\ store'[c][x] = Top(f).snap[x]
                  /\ \A d \in Dicts \ {c} : store'[d] = store[d]
                  /\ ctx[f] = c /\ ScopeOf(c) = Top(f).sc]_vars

\* the computation of foo.bar, read in the first block, entered a second
\* block, cached foo2.bar there and left it: foo.bar is in the dict of the
\* first block, which is active again, and the dict of the second block
\* holds foo2.bar only
C18_Witness ==
    /\ nscopes = 2
    /\ tok[2].old = tok[1].d /\ tok[2].used
    /\ ctx["main"] = tok[1].d
    /\ Has(tok[1].d, calc_cache_key("bar", "foo"))
    /\ store[tok[1].d][calc_cache_key("bar", "foo")].sc = 1
    /\ DOMAIN store[tok[2].d] = {calc_cache_key("bar", "foo2")}
    /\ ret = RetStored("main", 1, 1)
    /\ stack["main"] = <<Top("main")>> /\ TopIs("main", "ctx")

====
